---------------------------- MODULE Spec2Model ----------------------------
(***************************************************************************)
(* Model of the chunked-corpus summarization pipeline of repo-sage:        *)
(* openAIClient.Analyze (quick and detailed mode), formatLanguages and     *)
(* splitLongContent in pkg/llm/openai.go.                                  *)
(*                                                                         *)
(* Go strings are TLA+ strings (the files are ASCII, so a byte is a         *)
(* character): len, slicing, strings.Split, strings.Join, strings.Contains *)
(* and fmt.Sprintf are computed on the characters as the code computes     *)
(* them.                                                                   *)
(* The remote completion endpoint behind makeRequest is the environment:   *)
(* each request either returns one of a few response texts or fails with   *)
(* one of makeRequest's errors.  The progress callback is taken to be      *)
(* non-nil (the analyzer always passes one); every callback invocation and *)
(* every makeRequest call and return is appended to the history `trace`.   *)
(*                                                                         *)
(* Spec is Analyze as the analyzer calls it, with context.Background(),     *)
(* which is never cancelled.  SpecCtx is Analyze under a context that its  *)
(* caller may cancel at any moment of the run.                             *)
(***************************************************************************)
EXTENDS Integers, Sequences, FiniteSets, TLC

VARIABLES
    input,          \* AnalyzeInput handed to Analyze
    pc,             \* position of Analyze in its body
    files,          \* the sorted []fileInfo
    i,              \* index of the running loop (files, then chunks)
    chunks,         \* chunks []string
    currentChunk,   \* the strings.Builder of the file loop
    descriptions,   \* descriptions []string
    trace,          \* history: progress events, makeRequest calls and returns
    result,         \* what Analyze returned: [out, err]
    cancelled       \* ctx.Done() is closed

vars == <<input, pc, files, i, chunks, currentChunk, descriptions, trace, result,
          cancelled>>

-----------------------------------------------------------------------------
(* Bounds of the model *)

\* largest number of entries of input.Files
MaxFiles == 2

-----------------------------------------------------------------------------
(* Constants of the program *)

\* const maxChunkSize = 1500 // characters per chunk
maxChunkSize == 1500

\* Go's nil (a nil *AnalyzeOutput, a nil error, a nil slice field)
Nil == [nil |-> TRUE]

NL == "\n"

-----------------------------------------------------------------------------
(* Strings *)

Min(a, b) == IF a < b THEN a ELSE b

RECURSIVE Rep(_, _)
\* strings.Repeat(c, n)
Rep(c, n) ==
    IF n = 0 THEN ""
    ELSE LET h == Rep(c, n \div 2) IN h \o h \o (IF n % 2 = 1 THEN c ELSE "")

\* strings.Contains(s, substr)
Contains(s, substr) ==
    \E k \in 0..(Len(s) - Len(substr)) : SubSeq(s, k + 1, k + Len(substr)) = substr

\* strings.Split(s, "\n"): the text between consecutive newlines, first and
\* last (possibly empty) pieces included
Split(s) ==
    LET P      == {k \in 1..Len(s) : SubSeq(s, k, k) = NL}
        n      == Cardinality(P)
        pos(k) == IF k = 0 THEN 0
                  ELSE IF k = n + 1 THEN Len(s) + 1
                  ELSE CHOOSE p \in P : Cardinality({q \in P : q < p}) = k - 1
    IN  [k \in 1..(n + 1) |-> SubSeq(s, pos(k - 1) + 1, pos(k) - 1)]

RECURSIVE Join(_, _)
\* strings.Join(elems, sep)
Join(elems, sep) ==
    IF Len(elems) = 0 THEN ""
    ELSE IF Len(elems) = 1 THEN elems[1]
    ELSE elems[1] \o sep \o Join(Tail(elems), sep)

RECURSIVE Concat(_)
\* the concatenation of a sequence of strings
Concat(elems) == IF Len(elems) = 0 THEN "" ELSE Head(elems) \o Concat(Tail(elems))

\* the characters of language names and of formatted percentages, in the
\* order of their byte values
Ascii ==
    " !#$%&()*+,-./0123456789:;<=>?@ABCDEFGHIJKLMNOPQRSTUVWXYZ[]^_abcdefghijklmnopqrstuvwxyz{|}~"

\* the rank of a one-character string among the bytes
Code(c) == CHOOSE k \in 1..Len(Ascii) : SubSeq(Ascii, k, k) = c

RECURSIVE StrLess(_, _)
\* a < b on Go strings: the byte-wise lexical order
StrLess(a, b) ==
    IF Len(a) = 0 THEN Len(b) > 0
    ELSE IF Len(b) = 0 THEN FALSE
    ELSE LET x == Code(SubSeq(a, 1, 1))
             y == Code(SubSeq(b, 1, 1))
         IN  IF x # y THEN x < y
             ELSE StrLess(SubSeq(a, 2, Len(a)), SubSeq(b, 2, Len(b)))

RECURSIVE Itoa(_)
\* the decimal digits of a natural number
Itoa(n) ==
    IF n < 10 THEN SubSeq("0123456789", n + 1, n + 1)
    ELSE Itoa(n \div 10) \o SubSeq("0123456789", (n % 10) + 1, (n % 10) + 1)

-----------------------------------------------------------------------------
(* File selection: the sort of Analyze *)

\* strings.Contains(name, "main.") || strings.Contains(name, "index.")
isMain(name) ==
    \/ Contains(name, "main.")
    \/ Contains(name, "index.")

\* mutant of less: the entry-point flag is forgotten
less_mut(a, b) == Len(a.content) < Len(b.content)

\* the less function handed to sort.Slice, on two fileInfo values
less(a, b) ==
    IF isMain(a.name) # isMain(b.name) THEN isMain(a.name)
    ELSE Len(a.content) < Len(b.content)

\* every order of the map's entries: the map is ranged over in any order
Orders(Files) ==
    LET D == DOMAIN Files
        n == Cardinality(D)
    IN  {[k \in 1..n |-> [name |-> p[k], content |-> Files[p[k]]]] :
            p \in {q \in [1..n -> D] : \A a, b \in 1..n : a # b => q[a] # q[b]}}

\* what sort.Slice may leave: an order of the entries in which no element is
\* less than one before it (sort.Slice is not stable: ties come out in any order)
SortedOrders(Files) ==
    {s \in Orders(Files) : \A a, b \in 1..Len(s) : a < b => ~less(s[b], s[a])}

-----------------------------------------------------------------------------
(* Chunking *)

\* mutant of Windows: the windows are one byte short
Windows_mut(line, maxSize) ==
    [w \in 1..((Len(line) + maxSize - 2) \div (maxSize - 1)) |->
        SubSeq(line, (w - 1) * (maxSize - 1) + 1, Min(w * (maxSize - 1), Len(line)))]

\* the byte windows line[i:end] of a line longer than maxSize
Windows(line, maxSize) ==
    [w \in 1..((Len(line) + maxSize - 1) \div maxSize) |->
        SubSeq(line, (w - 1) * maxSize + 1, Min(w * maxSize, Len(line)))]

\* mutant of lineTooLong: the line is compared with the wrong size
lineTooLong_mut(line, maxSize) == Len(line) > 2 * maxSize

\* the condition under which splitLongContent slices a line into windows
lineTooLong(line, maxSize) == Len(line) > maxSize

\* the condition under which splitLongContent leaves the running chunk
lineOverflows(cur, line, maxSize) == Len(cur) + Len(line) + 1 > maxSize

\* mutant of writeLine: the newline between two lines is forgotten
writeLine_mut(cur, line) == cur \o line

\* currentChunk after the line has been written to it
writeLine(cur, line) == (IF Len(cur) > 0 THEN cur \o NL ELSE cur) \o line

RECURSIVE splitLines(_, _, _, _)
\* the loop of splitLongContent over the lines left, and its final flush
splitLines(lines, out, cur, maxSize) ==
    IF Len(lines) = 0
    THEN IF Len(cur) > 0 THEN Append(out, cur) ELSE out
    ELSE LET line    == Head(lines)
             over    == lineOverflows(cur, line, maxSize)
             flushed == IF over /\ Len(cur) > 0 THEN Append(out, cur) ELSE out
             cur1    == IF over THEN "" ELSE cur
         IN  IF over /\ lineTooLong(line, maxSize)
             THEN splitLines(Tail(lines), flushed \o Windows(line, maxSize), "", maxSize)
             ELSE splitLines(Tail(lines), flushed, writeLine(cur1, line), maxSize)

splitLongContent(content, maxSize) == splitLines(Split(content), <<>>, "", maxSize)

\* fmt.Sprintf("File: %s\n\n%s\n\n", file.name, file.content)
fileContent(file) ==
    "File: " \o file.name \o "\n\n" \o file.content \o "\n\n"

\* whether the file goes to splitLongContent
fileTooLarge(fc) == Len(fc) > maxChunkSize

\* mutant of flushChunk: the buffer is flushed even when it is empty
flushChunk_mut(cs, cur) == Append(cs, cur)

\* if currentChunk.Len() > 0 { chunks = append(chunks, currentChunk.String()) }
flushChunk(cs, cur) == IF Len(cur) > 0 THEN Append(cs, cur) ELSE cs

\* mutant of appendFile: the buffer is filled up to maxChunkSize and the file
\* goes on in the next chunk
appendFile_mut(cs, cur, fc) ==
    LET all == cur \o fc
    IN  IF Len(all) > maxChunkSize
        THEN [chunks |-> Append(cs, SubSeq(all, 1, maxChunkSize)),
              currentChunk |-> SubSeq(all, maxChunkSize + 1, Len(all))]
        ELSE [chunks |-> cs, currentChunk |-> all]

\* mutant of appendFile: the last piece of a split file stays in the buffer
appendFile_keepLast(cs, cur, fc) ==
    IF Len(cur) + Len(fc) > maxChunkSize
    THEN LET flushed == flushChunk(cs, cur)
             parts   == splitLongContent(fc, maxChunkSize)
         IN  IF fileTooLarge(fc)
             THEN [chunks |-> flushed \o SubSeq(parts, 1, Len(parts) - 1),
                   currentChunk |-> parts[Len(parts)]]
             ELSE [chunks |-> flushed, currentChunk |-> fc]
    ELSE [chunks |-> cs, currentChunk |-> cur \o fc]

\* mutant of appendFile: the pieces of a split file are emitted before the
\* buffer that was filled ahead of them
appendFile_piecesFirst(cs, cur, fc) ==
    IF Len(cur) + Len(fc) > maxChunkSize
    THEN IF fileTooLarge(fc)
         THEN [chunks |-> flushChunk(cs \o splitLongContent(fc, maxChunkSize), cur),
               currentChunk |-> ""]
         ELSE [chunks |-> flushChunk(cs, cur), currentChunk |-> fc]
    ELSE [chunks |-> cs, currentChunk |-> cur \o fc]

\* one iteration of the file loop on chunks and currentChunk
appendFile(cs, cur, fc) ==
    IF Len(cur) + Len(fc) > maxChunkSize
    THEN LET flushed == flushChunk(cs, cur)
         IN  IF fileTooLarge(fc)
             THEN [chunks |-> flushed \o splitLongContent(fc, maxChunkSize),
                   currentChunk |-> ""]
             ELSE [chunks |-> flushed, currentChunk |-> fc]
    ELSE [chunks |-> cs, currentChunk |-> cur \o fc]

-----------------------------------------------------------------------------
(* The completion endpoint and the progress callback *)

\* a progress(stage, current, total, response) invocation
Progress(stage, current, total, response) ==
    [type |-> "progress", stage |-> stage, current |-> current, total |-> total,
     response |-> response]

\* a c.makeRequest(ctx, prompt) call, and its two ways of returning
Call(prompt) == [type |-> "call", prompt |-> prompt]
ReturnOK(text) == [type |-> "return", ok |-> TRUE, text |-> text]
ReturnErr(err) == [type |-> "return", ok |-> FALSE, err |-> err]

\* errors makeRequest returns: the transport failed, the endpoint refused
RequestErrors ==
    {[msg |-> "failed to make request"],
     [msg |-> "API request failed with status"]}

\* context.Canceled, the error of a cancelled ctx
Canceled == [msg |-> "context canceled"]

\* errors makeRequest returns once ctx is cancelled: httpClient.Do gives up
\* with the context's error; the endpoint had answered 200 and reading the body
\* gives up with it; the endpoint had answered another status and the error of
\* reading the body is dropped (body, _ := io.ReadAll(resp.Body))
CancelErrors ==
    {[msg |-> "failed to make request", wraps |-> Canceled],
     [msg |-> "failed to decode response", wraps |-> Canceled],
     [msg |-> "API request failed with status"]}

\* the errors a makeRequest call may return
requestErrors(done) == IF done THEN CancelErrors ELSE RequestErrors

RECURSIVE errorsIs(_, _)
\* errors.Is(err, target): target is err or an error err wraps
errorsIs(err, target) ==
    \/ err = target
    \/ /\ "wraps" \in DOMAIN err
       /\ errorsIs(err.wraps, target)

\* response.Choices[0].Message.Content: what the endpoint may answer
Responses == {"r1", "r2"}

\* fmt.Sprintf("Analyze this part of the codebase. ...:\n\n%s", chunk)
chunkPrompt(chunk) ==
    "Analyze this part of the codebase. Focus on key components, patterns, and functionality. Be concise:\n\n"
        \o chunk

\* the separator of the chunk summaries in the summary prompt
summarySeparator == "\n\n---\n\n"

\* mutant of joinDescriptions: the summaries are joined last to first
joinDescriptions_mut(ds) ==
    Join([k \in 1..Len(ds) |-> ds[Len(ds) + 1 - k]], summarySeparator)

\* strings.Join(descriptions, "\n\n---\n\n")
joinDescriptions(ds) == Join(ds, summarySeparator)

\* fmt.Sprintf("Combine these analysis parts ...:\n\n%s", strings.Join(...))
summaryPrompt(ds) ==
    "Combine these analysis parts into a concise overview focusing on key components and architecture:\n\n"
        \o joinDescriptions(ds)

\* mutant of fileNumber: the 0-based loop index is reported
fileNumber_mut(k) == k

\* the 1-based index reported for the file at loop index k
fileNumber(k) == k + 1

\* mutant of chunkNumber: the 0-based loop index is reported
chunkNumber_mut(k) == k

\* the 1-based index reported for the chunk at loop index k
chunkNumber(k) == k + 1

\* mutant of chunkAt: the chunks are visited last to first
chunkAt_mut(cs, k) == cs[Len(cs) - k]

\* the chunk the range loop hands out at loop index k
chunkAt(cs, k) == cs[k + 1]

\* fmt.Errorf("failed to analyze chunk %d: %w", i+1, err)
chunkError(k, err) ==
    [msg |-> "failed to analyze chunk", index |-> chunkNumber(k), wraps |-> err]

\* fmt.Errorf("failed to generate summary: %w", err)
summaryError(err) == [msg |-> "failed to generate summary", wraps |-> err]

\* &AnalyzeOutput{Description: description, ...}
AnalyzeOutput(description) ==
    [Description |-> description, Architecture |-> "", Components |-> Nil,
     Setup |-> "", FlowDiagram |-> ""]

\* return nil, fmt.Errorf("failed to analyze chunk ...")
chunkFailure(k, err) == [out |-> Nil, err |-> chunkError(k, err)]

\* mutant of summaryFailure: an output is returned beside the error
summaryFailure_mut(err) == [out |-> AnalyzeOutput(""), err |-> summaryError(err)]

\* return nil, fmt.Errorf("failed to generate summary ...")
summaryFailure(err) == [out |-> Nil, err |-> summaryError(err)]

\* mutant of quickFailure: the error is wrapped like that of the summary
quickFailure_mut(err) == [out |-> Nil, err |-> summaryError(err)]

\* return nil, err: the error of makeRequest as it is
quickFailure(err) == [out |-> Nil, err |-> err]

\* mutant of needsSummary: a single description is combined too
needsSummary_one(ds) == Len(ds) > 0

\* mutant of needsSummary: two descriptions are not yet combined
needsSummary_mut(ds) == Len(ds) > 2

\* len(descriptions) > 1
needsSummary(ds) == Len(ds) > 1

\* mutant of afterFailure: the loop goes on after a failed request
afterFailure_mut == "chunks"

\* return nil, err: Analyze is over once a request has failed
afterFailure == "done"

-----------------------------------------------------------------------------
(* The language listing and the quick prompt *)

\* fmt.Sprintf("%.1f", pct), pct held in hundredths of a percent: rounded to
\* the nearest tenth
formatPct(pct) ==
    LET tenths == (pct + 5) \div 10
    IN  Itoa(tenths \div 10) \o "." \o Itoa(tenths % 10)

\* fmt.Sprintf("%s (%.1f%%)", lang, pct)
formatLanguage(lang, pct) == lang \o " (" \o formatPct(pct) \o "%)"

\* every order in which the keys of a map may be ranged over
KeyOrders(langs) ==
    LET D == DOMAIN langs
        n == Cardinality(D)
    IN  {q \in [1..n -> D] : \A a, b \in 1..n : a # b => q[a] # q[b]}

RECURSIVE insertString(_, _)
\* x put before the first element of the sorted s that is not less than x
insertString(x, s) ==
    IF Len(s) = 0 THEN <<x>>
    ELSE IF StrLess(Head(s), x) THEN <<Head(s)>> \o insertString(x, Tail(s))
    ELSE <<x>> \o s

RECURSIVE sortedStrings(_)
sortedStrings(s) ==
    IF Len(s) = 0 THEN <<>> ELSE insertString(Head(s), sortedStrings(Tail(s)))

\* mutant of sortStrings: the entries stay in the order of the iteration
sortStrings_mut(s) == s

\* sort.Strings(result)
sortStrings(s) == sortedStrings(s)

\* formatLanguages(langs), the map ranged over in the given order of its keys
formatLanguages(langs, order) ==
    Join(sortStrings([k \in 1..Len(order) |-> formatLanguage(order[k], langs[order[k]])]),
         ", ")

\* fmt.Sprintf(`Analyze this codebase ...`, input.DirStructure, formatLanguages(...))
quickPrompt(dirStructure, languages) ==
    "Analyze this codebase and provide a quick overview:\n\nDirectory Structure:\n"
        \o dirStructure
        \o "\n\nLanguages:\n"
        \o languages
        \o "\n\nPlease provide:\n1. A brief description of what this codebase likely does\n2. Main components and their purpose (based on directory structure)\n3. Technologies used (based on file types and languages)\n4. Setup/build system (based on manifest files)\n\nFocus on high-level understanding and keep it concise."

-----------------------------------------------------------------------------
(* Inputs *)

\* an entry point by its base name, a plain file, and a file of the same base
\* name under a directory whose name holds "index."
name_main == "main.go"
name_util == "util.go"
name_sub  == "index.d/util.go"

Names == {name_main, name_util, name_sub}

\* a short file; a file whose rendering fits alone but not beside another; one
\* over-long line; a line of exactly maxChunkSize and lines that fit one by one
\* but not all together; a file whose rendering under a 7-character path is
\* exactly maxChunkSize long
content_short == Rep("a", 10)
content_mid   == Rep("c", 800)
content_long  == Rep("b", 2000)
content_lines == Rep("d", maxChunkSize) \o NL \o Rep("d", 700) \o NL \o Rep("d", 700)
content_fit   == Rep("e", maxChunkSize - 17)

Contents == {content_short, content_mid, content_long, content_lines, content_fit}

\* the contents a path of the pool may have: the file under the directory is
\* short, or has the content that fits under a 7-character path only
ContentsOf(name) ==
    IF name = name_sub THEN {content_short, content_fit} ELSE Contents

\* the maps input.Files may be: at most MaxFiles paths, each with a content
FileMaps ==
    UNION {{f \in [D -> Contents] : \A n \in D : f[n] \in ContentsOf(n)} :
              D \in {E \in SUBSET Names : Cardinality(E) <= MaxFiles}}

\* the maps input.Languages may be, percentages in hundredths of a percent:
\* no language, one language, the two of the documented example, a name that
\* is a prefix of another with percentages that need rounding, a percentage
\* below ten, three languages
lang_none    == [l \in {} |-> 0]
lang_one     == [l \in {"Go"} |-> 10000]
lang_example == [l \in {"Go", "Python"} |-> IF l = "Go" THEN 7000 ELSE 3000]
lang_prefix  == [l \in {"C", "C++"} |-> IF l = "C" THEN 3333 ELSE 6667]
lang_small   == [l \in {"Go", "JavaScript"} |-> IF l = "Go" THEN 9074 ELSE 926]
lang_three   ==
    [l \in {"Go", "Python", "C"} |-> IF l = "Go" THEN 5000 ELSE IF l = "Python" THEN 3000 ELSE 2000]

LangMaps == {lang_none, lang_one, lang_example, lang_prefix, lang_small, lang_three}

\* a directory tree as the analyzer renders it
dir_example == "|-- main.go\n|-- util.go\n"

\* the inputs of a detailed run, which reads Files alone, and of a quick run
Inputs ==
    [Files : FileMaps, Languages : {lang_example}, DirStructure : {dir_example},
     IsDetailed : {TRUE}]
    \cup
    [Files : FileMaps, Languages : LangMaps, DirStructure : {dir_example},
     IsDetailed : {FALSE}]

-----------------------------------------------------------------------------
(* Analyze *)

\* Analyze has not returned
NotReturned == [returned |-> FALSE]

Init ==
    /\ input \in Inputs
    /\ pc = "start"
    /\ files = <<>>
    /\ i = 0
    /\ chunks = <<>>
    /\ currentChunk = ""
    /\ descriptions = <<>>
    /\ trace = <<>>
    /\ result = NotReturned
    /\ cancelled = FALSE

\* quick mode: the first progress event and the only request
QuickStart ==
    /\ pc = "start"
    /\ ~input.IsDetailed
    /\ \E order \in KeyOrders(input.Languages) :
        trace' = trace \o
            <<Progress("Preparing quick summary", 0, 1, ""),
              Call(quickPrompt(input.DirStructure, formatLanguages(input.Languages, order)))>>
    /\ pc' = "awaitQuick"
    /\ UNCHANGED <<input, files, i, chunks, currentChunk, descriptions, result, cancelled>>

\* makeRequest returned the quick summary
QuickOK ==
    /\ pc = "awaitQuick"
    /\ ~cancelled
    /\ \E response \in Responses :
        /\ trace' = trace \o <<ReturnOK(response),
                               Progress("Quick summary", 1, 1, response)>>
        /\ result' = [out |-> AnalyzeOutput(response), err |-> Nil]
    /\ pc' = "done"
    /\ UNCHANGED <<input, files, i, chunks, currentChunk, descriptions, cancelled>>

\* makeRequest returned an error in quick mode: return nil, err
QuickFail ==
    /\ pc = "awaitQuick"
    /\ \E err \in requestErrors(cancelled) :
        /\ trace' = Append(trace, ReturnErr(err))
        /\ result' = quickFailure(err)
    /\ pc' = "done"
    /\ UNCHANGED <<input, files, i, chunks, currentChunk, descriptions, cancelled>>

\* files := ...; sort.Slice(files, ...)
SortFiles ==
    /\ pc = "start"
    /\ input.IsDetailed
    /\ files' \in SortedOrders(input.Files)
    /\ pc' = "files"
    /\ i' = 0
    /\ UNCHANGED <<input, chunks, currentChunk, descriptions, trace, result, cancelled>>

\* one iteration of: for i, file := range files
ProcessFile ==
    /\ pc = "files"
    /\ i < Len(files)
    /\ LET r == appendFile(chunks, currentChunk, fileContent(files[i + 1]))
       IN  /\ chunks' = r.chunks
           /\ currentChunk' = r.currentChunk
    /\ trace' = Append(trace, Progress("Processing files", fileNumber(i), Len(files), ""))
    /\ i' = i + 1
    /\ UNCHANGED <<input, pc, files, descriptions, result, cancelled>>

\* the end of the file loop: the last flush of currentChunk
FlushLast ==
    /\ pc = "files"
    /\ i = Len(files)
    /\ chunks' = flushChunk(chunks, currentChunk)
    /\ pc' = "chunks"
    /\ i' = 0
    /\ UNCHANGED <<input, files, currentChunk, descriptions, trace, result, cancelled>>

\* for i, chunk := range chunks: the progress event and the request
StartChunk ==
    /\ pc = "chunks"
    /\ i < Len(chunks)
    /\ trace' = trace \o <<Progress("Analyzing chunks", chunkNumber(i), Len(chunks), ""),
                           Call(chunkPrompt(chunkAt(chunks, i)))>>
    /\ pc' = "awaitChunk"
    /\ UNCHANGED <<input, files, i, chunks, currentChunk, descriptions, result, cancelled>>

\* makeRequest returned a response for the chunk
ChunkOK ==
    /\ pc = "awaitChunk"
    /\ ~cancelled
    /\ \E response \in Responses :
        /\ trace' = trace \o <<ReturnOK(response),
                               Progress("Analysis response", chunkNumber(i), Len(chunks), response)>>
        /\ descriptions' = Append(descriptions, response)
    /\ i' = i + 1
    /\ pc' = "chunks"
    /\ UNCHANGED <<input, files, chunks, currentChunk, result, cancelled>>

\* makeRequest returned an error for the chunk
ChunkFail ==
    /\ pc = "awaitChunk"
    /\ \E err \in requestErrors(cancelled) :
        /\ trace' = Append(trace, ReturnErr(err))
        /\ result' = chunkFailure(i, err)
    /\ pc' = afterFailure
    /\ UNCHANGED <<input, files, i, chunks, currentChunk, descriptions, cancelled>>

\* after the chunk loop, more than one description: the summary request
StartSummary ==
    /\ pc = "chunks"
    /\ i = Len(chunks)
    /\ needsSummary(descriptions)
    /\ trace' = trace \o <<Progress("Generating summary", 0, 1, ""),
                           Call(summaryPrompt(descriptions))>>
    /\ pc' = "awaitSummary"
    /\ UNCHANGED <<input, files, i, chunks, currentChunk, descriptions, result, cancelled>>

\* makeRequest returned the final response
SummaryOK ==
    /\ pc = "awaitSummary"
    /\ ~cancelled
    /\ \E finalResponse \in Responses :
        /\ trace' = trace \o <<ReturnOK(finalResponse),
                               Progress("Final summary", 1, 1, finalResponse)>>
        /\ descriptions' = <<finalResponse>>
        /\ result' = [out |-> AnalyzeOutput(finalResponse), err |-> Nil]
    /\ pc' = "done"
    /\ UNCHANGED <<input, files, i, chunks, currentChunk, cancelled>>

\* makeRequest returned an error for the summary
SummaryFail ==
    /\ pc = "awaitSummary"
    /\ \E err \in requestErrors(cancelled) :
        /\ trace' = Append(trace, ReturnErr(err))
        /\ result' = summaryFailure(err)
    /\ pc' = afterFailure
    /\ UNCHANGED <<input, files, i, chunks, currentChunk, descriptions, cancelled>>

\* after the chunk loop, one description: return &AnalyzeOutput{descriptions[0]}
ReturnSingle ==
    /\ pc = "chunks"
    /\ i = Len(chunks)
    /\ ~needsSummary(descriptions)
    /\ Len(descriptions) > 0
    /\ result' = [out |-> AnalyzeOutput(descriptions[1]), err |-> Nil]
    /\ pc' = "done"
    /\ UNCHANGED <<input, files, i, chunks, currentChunk, descriptions, trace, cancelled>>

\* after the chunk loop, no description: descriptions[0] is out of range and
\* the Go runtime panics
PanicNoDescription ==
    /\ pc = "chunks"
    /\ i = Len(chunks)
    /\ ~needsSummary(descriptions)
    /\ Len(descriptions) = 0
    /\ pc' = "panic"
    /\ UNCHANGED <<input, files, i, chunks, currentChunk, descriptions, trace, result, cancelled>>

\* the caller cancels ctx while Analyze runs
Cancel ==
    /\ pc \notin {"done", "panic"}
    /\ ~cancelled
    /\ cancelled' = TRUE
    /\ UNCHANGED <<input, pc, files, i, chunks, currentChunk, descriptions, trace, result>>

Next ==
    \/ QuickStart
    \/ QuickOK
    \/ QuickFail
    \/ SortFiles
    \/ ProcessFile
    \/ FlushLast
    \/ StartChunk
    \/ ChunkOK
    \/ ChunkFail
    \/ StartSummary
    \/ SummaryOK
    \/ SummaryFail
    \/ ReturnSingle
    \/ PanicNoDescription

\* Analyze under context.Background(), as the analyzer calls it
Spec == Init /\ [][Next]_vars

NextCtx ==
    \/ Next
    \/ Cancel

\* Analyze under a context its caller may cancel
SpecCtx == Init /\ [][NextCtx]_vars

-----------------------------------------------------------------------------
(* Observations of a run *)

IsCall(e) == e.type = "call"
IsReturn(e) == e.type = "return"
IsEvent(e, stage) == e.type = "progress" /\ e.stage = stage
IsFailure(e) == e.type = "return" /\ ~e.ok

\* the progress events that announce a chunk request and the summary request
IsChunkStart(e) == IsEvent(e, "Analyzing chunks")
IsSummaryStart(e) == IsEvent(e, "Generating summary")

\* the makeRequest calls issued so far, and the returns received so far
Calls == SelectSeq(trace, IsCall)
Returns == SelectSeq(trace, IsReturn)

\* the file loop of a detailed run and its last flush are over: chunks is final
Chunked ==
    /\ input.IsDetailed
    /\ pc \in {"chunks", "awaitChunk", "awaitSummary", "done", "panic"}

\* a detailed run returned an output and a nil error
Succeeded == input.IsDetailed /\ pc = "done" /\ result.err = Nil

\* the history after the file loop's "Processing files" events
ChunkTrace == SubSeq(trace, Len(files) + 1, Len(trace))

\* the ordered corpus as rendered text
Rendering == Concat([k \in 1..Len(files) |-> fileContent(files[k])])

\* the corpus of the example: {"main.go": "a" x 10, "util.go": "b" x 2000}
ExampleFiles ==
    [n \in {name_main, name_util} |-> IF n = name_main THEN content_short ELSE content_long]

-----------------------------------------------------------------------------
(* Claims *)

\* C1: every chunk the chunker emits, and the accumulating buffer itself, is at
\* most maxChunkSize long, at every point of the file loop and after it.
C1_ChunksBounded ==
    /\ \A k \in 1..Len(chunks) : Len(chunks[k]) <= maxChunkSize
    /\ Len(currentChunk) <= maxChunkSize

\* C1 witness: the chunker has emitted a full byte window of an over-long line
\* and a chunk accumulated from several lines of a split file.
C1_Witness ==
    /\ Chunked
    /\ \E k \in 1..Len(chunks) : chunks[k] = Rep("b", maxChunkSize)
    /\ \E k \in 1..Len(chunks) : chunks[k] = Rep("d", 700) \o NL \o Rep("d", 700) \o "\n\n"

\* C2: the chunks concatenated in order are exactly the renderings of the files
\* concatenated in corpus order.
C2_Lossless == Chunked => Concat(chunks) = Rendering

\* C3: a run that returns successfully had N >= 1 chunks and issued exactly
\* one call per chunk, in order, plus one summary call if and only if N > 1.
C3_CallCount ==
    Succeeded =>
        LET N == Len(chunks)
        IN  /\ N >= 1
            /\ Len(Calls) = IF N = 1 THEN 1 ELSE N + 1
            /\ \A k \in 1..N : Calls[k] = Call(chunkPrompt(chunks[k]))
            /\ N > 1 => Calls[N + 1] = Call(summaryPrompt([k \in 1..N |-> Returns[k].text]))

\* C3 witness: a successful run over three chunks.
C3_Witness == Succeeded /\ Len(chunks) = 3

\* C4: once the request for chunk k has failed, nothing follows it: no later
\* request (for a chunk or for the summary), no "Analysis response" event for
\* chunk k, and Analyze has returned nil and an error carrying the index k.
C4_ChunkFailureAborts ==
    \A j \in 3..Len(trace) :
        (IsFailure(trace[j]) /\ IsEvent(trace[j - 2], "Analyzing chunks")) =>
            LET k == Len(SelectSeq(SubSeq(trace, 1, j), IsCall))
            IN  /\ j = Len(trace)
                /\ Len(Calls) = k
                /\ \A m \in 1..Len(trace) :
                      /\ ~(IsEvent(trace[m], "Analysis response") /\ trace[m].current = k)
                      /\ ~IsEvent(trace[m], "Generating summary")
                /\ pc = "done"
                /\ result = [out |-> Nil,
                             err |-> [msg |-> "failed to analyze chunk", index |-> k,
                                      wraps |-> trace[j].err]]

\* C4 witness: the request for the second of at least three chunks failed.
C4_Witness ==
    /\ pc = "done"
    /\ Len(chunks) >= 3
    /\ Len(Calls) = 2
    /\ IsFailure(trace[Len(trace)])

\* C5: a run that has ended has returned, with either an output and a nil
\* error or a nil output and an error.
C5_OutputOrError ==
    pc \in {"done", "panic"} =>
        /\ pc = "done"
        /\ \/ result.out # Nil /\ result.err = Nil
           \/ result.out = Nil /\ result.err # Nil

\* C6 as stated: the example corpus gives exactly 3 chunks, and a successful
\* run over it issues 4 requests.
C6_ExampleThreeChunks ==
    (input.Files = ExampleFiles /\ Chunked) =>
        /\ Len(chunks) = 3
        /\ Succeeded => Len(Calls) = 4

\* C6 amended: the example corpus gives exactly 4 chunks (main.go's rendering,
\* the header line of util.go with one newline, then windows of 1500 and 500
\* characters), and a successful run over it issues 5 requests.
C6_ExampleFourChunks ==
    (input.Files = ExampleFiles /\ Chunked) =>
        /\ chunks = <<"File: main.go\n\n" \o Rep("a", 10) \o "\n\n",
                      "File: util.go\n",
                      Rep("b", 1500),
                      Rep("b", 500)>>
        /\ Succeeded => Len(Calls) = 5

\* C6 witness: a successful run over the example corpus.
C6_Witness == input.Files = ExampleFiles /\ Succeeded

\* a path that holds "main." or "index."
EntryNamed(name) == Contains(name, "main.") \/ Contains(name, "index.")

\* C7: the ordered corpus holds each entry of the map once; entry-point-named
\* files precede the others, and within each group lengths do not decrease.
C7_Ordering ==
    (input.IsDetailed /\ pc # "start") =>
        /\ Len(files) = Cardinality(DOMAIN input.Files)
        /\ \A n \in DOMAIN input.Files :
              \E k \in 1..Len(files) : files[k] = [name |-> n, content |-> input.Files[n]]
        /\ \A a, b \in 1..Len(files) :
              a < b =>
                /\ EntryNamed(files[b].name) => EntryNamed(files[a].name)
                /\ (EntryNamed(files[a].name) <=> EntryNamed(files[b].name))
                      => Len(files[a].content) <= Len(files[b].content)

\* C7 witness: an entry-point-named file stands before a shorter plain file.
C7_Witness ==
    /\ pc # "start"
    /\ Len(files) = 2
    /\ EntryNamed(files[1].name)
    /\ ~EntryNamed(files[2].name)
    /\ Len(files[1].content) > Len(files[2].content)

\* C8: after the file loop the history is, chunk by chunk in index order,
\* ("Analyzing chunks", c, N, ""), the request for chunk c, its return, and
\* after a successful return ("Analysis response", c, N, response); at most one
\* request is outstanding.
C8_ChunksInOrder ==
    LET N  == Len(chunks)
        ct == ChunkTrace
    IN  /\ \A j \in 1..Min(Len(ct), 4 * N) :
              LET c == ((j - 1) \div 4) + 1
                  m == (j - 1) % 4
              IN  CASE m = 0 -> ct[j] = Progress("Analyzing chunks", c, N, "")
                    [] m = 1 -> ct[j] = Call(chunkPrompt(chunks[c]))
                    [] m = 2 -> IsReturn(ct[j])
                    [] m = 3 -> /\ ct[j - 1].ok
                                /\ ct[j] = Progress("Analysis response", c, N, ct[j - 1].text)
        /\ Len(Calls) - Len(Returns) = IF pc \in {"awaitQuick", "awaitChunk", "awaitSummary"} THEN 1 ELSE 0

\* C8 witness: the request for the third chunk is outstanding.
C8_Witness == pc = "awaitChunk" /\ Len(ChunkTrace) = 10

\* C9: on success the Description is the only response when N = 1, and when
\* N > 1 the response of the summary request, whose prompt holds the N chunk
\* responses in chunk order joined by "\n\n---\n\n".
C9_Description ==
    Succeeded =>
        LET N         == Len(chunks)
            summaries == [k \in 1..N |-> Returns[k].text]
        IN  IF N = 1
            THEN /\ Len(Returns) = 1
                 /\ result.out.Description = summaries[1]
            ELSE /\ Len(Returns) = N + 1
                 /\ result.out.Description = Returns[N + 1].text
                 /\ Contains(Calls[N + 1].prompt, Join(summaries, "\n\n---\n\n"))

\* C9 witness: a successful run whose first two chunk responses differ.
C9_Witness ==
    /\ Succeeded
    /\ Len(chunks) >= 2
    /\ Returns[1].text # Returns[2].text

\* C10: once the summary request has failed, Analyze has returned a nil output
\* and an error, and no "Final summary" event was emitted.
C10_SummaryFailure ==
    \A j \in 3..Len(trace) :
        (IsFailure(trace[j]) /\ IsEvent(trace[j - 2], "Generating summary")) =>
            /\ j = Len(trace)
            /\ Len(chunks) > 1
            /\ Len(Returns) = Len(chunks) + 1
            /\ pc = "done"
            /\ result.out = Nil
            /\ result.err # Nil
            /\ \A m \in 1..Len(trace) : ~IsEvent(trace[m], "Final summary")

\* C10 witness: the summary request failed after every chunk request succeeded.
C10_Witness ==
    /\ pc = "done"
    /\ Len(trace) >= 3
    /\ IsFailure(trace[Len(trace)])
    /\ IsEvent(trace[Len(trace) - 2], "Generating summary")

\* C11: stages only advance and nothing is retried: every "Processing files"
\* event precedes every request, every chunk request precedes the summary
\* request, each chunk index is requested at most once, the summary is
\* requested at most once, and a failed request is the last entry of the
\* history: no request and no progress event follows it.
C11_NoRetry ==
    LET n           == Len(trace)
        firstCall   == IF Len(Calls) = 0 THEN n + 1
                       ELSE CHOOSE a \in 1..n :
                                IsCall(trace[a]) /\ Len(SelectSeq(SubSeq(trace, 1, a), IsCall)) = 1
        chunkStarts == SelectSeq(trace, IsChunkStart)
        summaries   == {a \in 1..n : IsSummaryStart(trace[a])}
    IN  /\ \A a \in 1..n : IsEvent(trace[a], "Processing files") => a < firstCall
        /\ \A a \in 1..n :
              IsCall(trace[a]) =>
                /\ a > 1
                /\ \/ IsChunkStart(trace[a - 1])
                   \/ IsSummaryStart(trace[a - 1])
                   \/ IsEvent(trace[a - 1], "Preparing quick summary")
        /\ \A k \in 1..Len(chunkStarts) :
              /\ chunkStarts[k].current \in 1..Len(chunks)
              /\ k > 1 => chunkStarts[k - 1].current < chunkStarts[k].current
        /\ Cardinality(summaries) <= 1
        /\ \A a \in summaries : \A b \in (a + 1)..n : ~IsChunkStart(trace[b])
        /\ \A a \in 1..n : IsFailure(trace[a]) => a = n

\* C11 witness: the summary request failed after the requests for three
\* chunks of two files had succeeded.
C11_Witness ==
    /\ pc = "done"
    /\ Len(files) = 2
    /\ Len(chunks) = 3
    /\ Len(Calls) = 4
    /\ IsFailure(trace[Len(trace)])

\* a request is outstanding
Awaiting == pc \in {"awaitQuick", "awaitChunk", "awaitSummary"}

\* C12: a request that returns after ctx was cancelled returns an error, and
\* Analyze then returns a nil output and an error that is the cancellation
\* (errors.Is(err, context.Canceled)), which no error of a failed remote call is.
C12_CancelSurfaces ==
    [][(cancelled /\ Awaiting /\ pc' # pc) =>
          /\ IsFailure(trace'[Len(trace')])
          /\ pc' = "done"
          /\ result'.out = Nil
          /\ errorsIs(result'.err, Canceled)
          /\ \A e \in RequestErrors : ~errorsIs(result'.err, e)]_vars

\* C13: a quick run does no chunking and its history is, whatever Files holds,
\* ("Preparing quick summary", 0, 1, ""), one request, its return, and after a
\* successful return ("Quick summary", 1, 1, response) with the response
\* returned as Description; after a failed return nothing more is emitted and
\* Analyze returns nil and the error of the request itself.
C13_QuickTrace ==
    ~input.IsDetailed =>
        LET prompt == quickPrompt(input.DirStructure,
                                  formatLanguages(input.Languages,
                                                  CHOOSE o \in KeyOrders(input.Languages) : TRUE))
            begun  == <<Progress("Preparing quick summary", 0, 1, ""), Call(prompt)>>
        IN  /\ files = <<>> /\ chunks = <<>> /\ currentChunk = "" /\ descriptions = <<>>
            /\ pc \in {"start", "awaitQuick", "done"}
            /\ pc = "start" => trace = <<>> /\ result = NotReturned
            /\ pc = "awaitQuick" => trace = begun /\ result = NotReturned
            /\ pc = "done" =>
                  /\ Len(trace) >= 3
                  /\ SubSeq(trace, 1, 2) = begun
                  /\ IsReturn(trace[3])
                  /\ IF trace[3].ok
                     THEN /\ trace = begun \o <<trace[3],
                                                 Progress("Quick summary", 1, 1, trace[3].text)>>
                          /\ result = [out |-> AnalyzeOutput(trace[3].text), err |-> Nil]
                          /\ result.out.Description = trace[3].text
                     ELSE /\ trace = Append(begun, trace[3])
                          /\ result = [out |-> Nil, err |-> trace[3].err]

\* C13 witness: a quick run over a map that holds an oversized file returned
\* the response.
C13_Witness ==
    /\ ~input.IsDetailed
    /\ pc = "done"
    /\ result.err = Nil
    /\ \E n \in DOMAIN input.Files : input.Files[n] = content_long

\* C13 witness of the failure: a quick run whose request failed has returned.
C13_FailureWitness ==
    /\ ~input.IsDetailed
    /\ pc = "done"
    /\ Len(trace) = 3
    /\ IsFailure(trace[3])

\* the formatted entries "lang (pct%)" of a language map
Entries(langs) == {formatLanguage(l, langs[l]) : l \in DOMAIN langs}

\* the arrangements of a set of strings in ascending lexical order
Ascending(E) ==
    {q \in [1..Cardinality(E) -> E] :
        \A a, b \in 1..Cardinality(E) : a < b => StrLess(q[a], q[b])}

\* C15: the language listing of the quick prompt is the formatted entries of
\* the map in ascending lexical order joined by ", ", whatever order the map
\* was ranged over; {Go: 70.0, Python: 30.0} gives "Go (70.0%), Python (30.0%)".
C15_Listing ==
    (~input.IsDetailed /\ pc = "awaitQuick") =>
        /\ \E q \in Ascending(Entries(input.Languages)) :
              trace[2] = Call(quickPrompt(input.DirStructure, Join(q, ", ")))
        /\ \A o1, o2 \in KeyOrders(input.Languages) :
              formatLanguages(input.Languages, o1) = formatLanguages(input.Languages, o2)
        /\ input.Languages = lang_example =>
              Contains(trace[2].prompt, "\n\nLanguages:\nGo (70.0%), Python (30.0%)\n\n")

\* C15 witness: the prompt of a quick run over three languages lists them in
\* lexical order, which is not the order of their percentages.
C15_Witness ==
    /\ ~input.IsDetailed
    /\ pc = "awaitQuick"
    /\ input.Languages = lang_three
    /\ Contains(trace[2].prompt, "C (20.0%), Go (50.0%), Python (30.0%)")

\* the file loop and its last flush have just ended
ChunkingDone == input.IsDetailed /\ pc = "chunks" /\ i = 0

\* the file's rendering is at most maxChunkSize long
Fits(file) == Len(fileContent(file)) <= maxChunkSize

\* the chunks that hold the text as a contiguous part
Holders(text) == {k \in 1..Len(chunks) : Contains(chunks[k], text)}

\* C14: when the chunker is done, the rendering of every file that fits in
\* maxChunkSize stands whole and contiguous in exactly one chunk; a corpus of
\* one such file gives one chunk, which is that rendering.
C14_FittingFileWhole ==
    ChunkingDone =>
        /\ \A k \in 1..Len(files) :
              Fits(files[k]) => Cardinality(Holders(fileContent(files[k]))) = 1
        /\ (Len(files) = 1 /\ Fits(files[1])) => chunks = <<fileContent(files[1])>>

\* C14 witness: a file that fits stands whole in a chunk of its own because the
\* buffer before it could not take it.
C14_Witness ==
    /\ ChunkingDone
    /\ Len(files) = 2
    /\ Fits(files[1]) /\ Fits(files[2])
    /\ chunks = <<fileContent(files[1]), fileContent(files[2])>>

\* C14 witness of the single file: a corpus of one file whose rendering is
\* exactly maxChunkSize long.
C14_SingleWitness ==
    /\ ChunkingDone
    /\ Len(files) = 1
    /\ Len(fileContent(files[1])) = maxChunkSize

\* filepath.Base(path) of a file path: what follows its last "/"
Base(path) ==
    LET P == {k \in 1..Len(path) : SubSeq(path, k, k) = "/"}
    IN  IF P = {} THEN path
        ELSE SubSeq(path, (CHOOSE k \in P : \A m \in P : m <= k) + 1, Len(path))

\* C16: the selector classifies two files of the ordered corpus alike whenever
\* their base names are equal, whatever directories their paths name.
C16_BaseNameOnly ==
    (input.IsDetailed /\ pc # "start") =>
        \A a, b \in 1..Len(files) :
            Base(files[a].name) = Base(files[b].name)
                => (isMain(files[a].name) <=> isMain(files[b].name))

\* the chunk is the renderings of files a..b of the ordered corpus, all of
\* which fit in maxChunkSize
IsFittingRun(chunk, a, b) ==
    /\ \A k \in a..b : Fits(files[k])
    /\ chunk = Concat([k \in 1..(b - a + 1) |-> fileContent(files[a + k - 1])])

\* the chunk is a contiguous part of the rendering of one oversized file
IsPieceOfOversized(chunk) ==
    \E k \in 1..Len(files) : ~Fits(files[k]) /\ Contains(fileContent(files[k]), chunk)

\* C17: an oversized file shares no chunk with another file: once it has been
\* processed the buffer is empty, and when the chunker is done every chunk is
\* either the renderings of consecutive fitting files or a part of the
\* rendering of one oversized file.
C17_OversizedAlone ==
    /\ (input.IsDetailed /\ pc = "files" /\ i >= 1 /\ ~Fits(files[i])) => currentChunk = ""
    /\ ChunkingDone =>
          \A c \in 1..Len(chunks) :
              \/ \E a \in 1..Len(files) : \E b \in a..Len(files) : IsFittingRun(chunks[c], a, b)
              \/ IsPieceOfOversized(chunks[c])

\* C17 witness: the buffer held a fitting file when an oversized file came; it
\* was flushed as a chunk of its own before the pieces.
C17_Witness ==
    /\ ChunkingDone
    /\ Len(files) = 2
    /\ Fits(files[1]) /\ ~Fits(files[2])
    /\ chunks[1] = fileContent(files[1])
    /\ Len(chunks) >= 3

\* C17 witness of the file after: a fitting file that follows an oversized
\* file has a chunk of its own.
C17_AfterWitness ==
    /\ ChunkingDone
    /\ Len(files) = 2
    /\ ~Fits(files[1]) /\ Fits(files[2])
    /\ chunks[Len(chunks)] = fileContent(files[2])

RECURSIVE SkipNewlines(_, _)
\* the first position of text from p on that holds no newline
SkipNewlines(text, p) ==
    IF p <= Len(text) /\ SubSeq(text, p, p) = NL THEN SkipNewlines(text, p + 1) ELSE p

RECURSIVE InOrder(_, _, _)
\* chunks k, k + 1, ... stand in text from position p on one after the other,
\* in this order, with nothing but newlines between and after them
InOrder(text, k, p) ==
    LET q == SkipNewlines(text, p)
    IN  IF k > Len(chunks) THEN q = Len(text) + 1
        ELSE /\ SubSeq(text, q, q + Len(chunks[k]) - 1) = chunks[k]
             /\ InOrder(text, k + 1, q + Len(chunks[k]))

\* C18: chunk order is corpus order: the chunks stand in the rendering of the
\* ordered corpus one after the other in the order of their emission, so that
\* text of an earlier file is never in a later chunk than text of a later
\* file, and the pieces of a split file follow the order of its text.
C18_CorpusOrder == ChunkingDone => InOrder(Rendering, 1, 1)

\* C18 witness: a fitting entry point came before an oversized file, whose
\* header piece and byte windows follow its chunk.
C18_Witness ==
    /\ ChunkingDone
    /\ Len(files) = 2
    /\ chunks = <<fileContent(files[1]),
                  "File: " \o files[2].name \o NL,
                  Rep("b", maxChunkSize),
                  Rep("b", 500)>>

\* the output out holds, from some index on, the line cut into consecutive
\* windows of exactly maxSize bytes and a last, non-empty, window of at most
\* maxSize bytes, each window an element of its own
SlicedIn(out, line, maxSize) ==
    LET w == (Len(line) + maxSize - 1) \div maxSize
    IN  \E s \in 1..Len(out) :
            /\ s + w - 1 <= Len(out)
            /\ \A j \in 1..(w - 1) :
                  /\ Len(out[s + j - 1]) = maxSize
                  /\ out[s + j - 1] = SubSeq(line, (j - 1) * maxSize + 1, j * maxSize)
            /\ Len(out[s + w - 1]) \in 1..maxSize
            /\ Concat(SubSeq(out, s, s + w - 1)) = line

\* the line is a whole line of one element of the output
WholeIn(out, line) ==
    \E k \in 1..Len(out) : \E l \in DOMAIN Split(out[k]) : Split(out[k])[l] = line

\* C19: splitLongContent, applied to the rendering of any file, slices a line
\* if and only if the line is longer than maxSize: such a line comes out as
\* consecutive windows of exactly maxSize bytes and a non-empty last one, each
\* an element of its own, that concatenate to the line; a shorter, non-empty
\* line comes out whole.
C19_Windows ==
    (input.IsDetailed /\ pc = "files" /\ i = 0) =>
        \A f \in 1..Len(files) :
            LET fc    == fileContent(files[f])
                out   == splitLongContent(fc, maxChunkSize)
                lines == Split(fc)
            IN  \A l \in 1..Len(lines) :
                    IF Len(lines[l]) > maxChunkSize
                    THEN SlicedIn(out, lines[l], maxChunkSize) /\ ~WholeIn(out, lines[l])
                    ELSE Len(lines[l]) > 0 => WholeIn(out, lines[l])

\* C19 witness: the corpus holds a file with a line of 2000 bytes and a file
\* with a line of exactly maxChunkSize bytes.
C19_Witness ==
    /\ input.IsDetailed
    /\ pc = "files"
    /\ i = 0
    /\ \E f \in 1..Len(files) : files[f].content = content_long
    /\ \E f \in 1..Len(files) : files[f].content = content_lines

\* C20: no chunk ever emitted is the empty string, a non-empty file map gives
\* at least one chunk, and no request is made for an empty chunk.
C20_NoEmptyChunk ==
    /\ \A k \in 1..Len(chunks) : Len(chunks[k]) > 0
    /\ (Chunked /\ DOMAIN input.Files # {}) => Len(chunks) >= 1
    /\ \A a \in 2..Len(trace) :
          (IsCall(trace[a]) /\ IsChunkStart(trace[a - 1]))
              => trace[a].prompt # chunkPrompt("")

\* C20 witness: a chunk of a corpus of two oversized files, before each of
\* which the buffer was empty, has been requested.
C20_Witness ==
    /\ input.IsDetailed
    /\ pc = "awaitChunk"
    /\ Len(files) = 2
    /\ ~Fits(files[1]) /\ ~Fits(files[2])

\* the stages a progress event may name
Stages ==
    {"Preparing quick summary", "Quick summary", "Processing files", "Analyzing chunks",
     "Analysis response", "Generating summary", "Final summary"}

IsProgress(e) == e.type = "progress"
IsFileEvent(e) == IsEvent(e, "Processing files")

\* the number of files the file loop has gone through
FilesDone ==
    IF pc = "start" THEN 0 ELSE IF pc = "files" THEN i ELSE Len(files)

\* C21: within each stage the reported current never decreases, every
\* progress event has 0 <= current <= total and a known stage, and the
\* "Processing files" events are, file by file, (k, len(files)) for
\* k = 1..len(files), one for each file the loop has gone through, split or
\* not.
C21_ProgressMonotone ==
    LET events == SelectSeq(trace, IsProgress)
    IN  /\ \A k \in 1..Len(events) :
              /\ events[k].stage \in Stages
              /\ 0 <= events[k].current
              /\ events[k].current <= events[k].total
        /\ \A st \in Stages :
              LET ev == SelectSeq(events, LAMBDA e : e.stage = st)
              IN  \A k \in 2..Len(ev) : ev[k - 1].current <= ev[k].current
        /\ input.IsDetailed =>
              SelectSeq(events, IsFileEvent)
                  = [k \in 1..FilesDone |-> Progress("Processing files", k, Len(files), "")]

\* C21 witness: a run over two files, both split, has gone through the file
\* loop and is at its third chunk.
C21_Witness ==
    /\ input.IsDetailed
    /\ pc = "awaitChunk"
    /\ i = 2
    /\ Len(files) = 2
    /\ ~Fits(files[1]) /\ ~Fits(files[2])
    /\ Len(SelectSeq(trace, IsFileEvent)) = 2

IsResponseEvent(e) == IsEvent(e, "Analysis response")
IsFinalSummary(e) == IsEvent(e, "Final summary")

\* C22: ("Generating summary", 0, 1, "") is emitted only when there are N > 1
\* chunks, right after the "Analysis response" of chunk N and right before
\* the summary request; ("Final summary", 1, 1, text) is emitted only after
\* that request has returned text, which is the Description Analyze returns;
\* a successful run over N > 1 chunks ends with it, and a run over one chunk
\* emits neither event.
C22_SummaryEvents ==
    LET n == Len(trace)
        N == Len(chunks)
    IN  /\ \A a \in 1..n :
              IsSummaryStart(trace[a]) =>
                /\ trace[a] = Progress("Generating summary", 0, 1, "")
                /\ N > 1
                /\ a > 1
                /\ IsResponseEvent(trace[a - 1])
                /\ trace[a - 1].current = N
                /\ Len(SelectSeq(trace, IsResponseEvent)) = N
                /\ a < n
                /\ trace[a + 1] = Call(summaryPrompt([k \in 1..N |-> Returns[k].text]))
        /\ \A a \in 1..n :
              IsFinalSummary(trace[a]) =>
                /\ a >= 4
                /\ IsSummaryStart(trace[a - 3])
                /\ IsCall(trace[a - 2])
                /\ IsReturn(trace[a - 1])
                /\ trace[a - 1].ok
                /\ trace[a] = Progress("Final summary", 1, 1, trace[a - 1].text)
                /\ a = n
                /\ pc = "done"
                /\ result.err = Nil
                /\ result.out.Description = trace[a].response
        /\ (Succeeded /\ N > 1) => IsFinalSummary(trace[n])
        /\ N = 1 => \A a \in 1..n : ~IsSummaryStart(trace[a]) /\ ~IsFinalSummary(trace[a])

\* C22 witness: a successful run over two chunks has emitted both events.
C22_Witness ==
    /\ Succeeded
    /\ Len(chunks) = 2
    /\ IsFinalSummary(trace[Len(trace)])
    /\ IsSummaryStart(trace[Len(trace) - 3])

\* C22 witness of the single chunk: a successful run over one chunk.
C22_SingleWitness ==
    /\ Succeeded
    /\ Len(chunks) = 1

=============================================================================
